---- MODULE Spec2Model ----
(***************************************************************************)
(* The command dispatcher of lib/ansible/cli/scripts/ansible_cli_stub.py:  *)
(* the body of `if __name__ == '__main__':` as a state machine, one action *)
(* per statement group of the script, with the collaborators it calls      *)
(* (Display, __import__, os.mkdir, to_text, the CLI class) as              *)
(* nondeterministic environment steps.                                     *)
(*                                                                         *)
(* Text is a sequence of characters.  To keep the input sets small the     *)
(* alphabet holds the word "ansible" as one atom next to a letter, a digit *)
(* and the hyphen; splitting, suffix tests and first-character tests are   *)
(* computed on these sequences as the code computes them on str.           *)
(***************************************************************************)
EXTENDS Integers, Sequences, FiniteSets, TLC

VARIABLES
    pc,                        \* position in the script
    me,                        \* os.path.basename(sys.argv[0])
    argv,                      \* sys.argv: per argument, "text" or "undecodable"
    DEFAULT_DEBUG,             \* C.DEFAULT_DEBUG
    CONTROLLER_PYTHON_WARNING, \* C.CONTROLLER_PYTHON_WARNING
    PY38_MIN,                  \* _PY38_MIN
    fs,                        \* state of ~/.ansible on the filesystem
    display,                   \* which object `display` is bound to
    cli,                       \* `cli`: None or the constructed implementation
    sub, myclass, mycli,       \* locals of the try body
    imp,                       \* what the import system did for ansible.cli.<sub>
    CLIARGS,                   \* context.CLIARGS: empty until run() parses the
                               \* options (verbosity is then the default, 0)
    exc,                       \* the exception propagating, if any
    caught,                    \* the exception an except arm of the try was entered with
    exit_code,                 \* `exit_code`
    out,                       \* everything emitted through display / the parser
    status,                    \* the process exit status once it has terminated
    hist,                      \* history: the steps taken so far, in order
    returned,                  \* history: the value cli.run() returned, if it did
    peers                      \* the dispatcher processes that prepare the same
                               \* state directory side by side: per process its
                               \* position, the errno of its os.mkdir, whether it
                               \* warned, and how many os.mkdir calls preceded its own

vars == <<pc, me, argv, DEFAULT_DEBUG, CONTROLLER_PYTHON_WARNING, PY38_MIN, fs,
          display, cli, sub, myclass, mycli, imp, CLIARGS, exc, caught,
          exit_code, out, status, hist, returned, peers>>

-----------------------------------------------------------------------------
(* Bounds *)

MaxNameLen == 2      \* longest basename (in characters) a full run is started with
MaxAliasLen == 5     \* longest basename alias resolution alone is run on
MaxArgs == 2         \* longest argument vector
MaxVerbosity == 3    \* largest verbosity the parsed options carry
MaxReturn == 2       \* largest value run() returns
NumProcs == 4        \* processes preparing the state directory side by side

-----------------------------------------------------------------------------
(* Text *)

Letters == {"ansible", "w"}
Digits == {"2"}
Hyphen == "-"
Alphabet == Letters \cup Digits \cup {Hyphen}

RECURSIVE Strings(_)
Strings(n) ==
    IF n = 0 THEN {<<>>}
    ELSE LET shorter == Strings(n - 1)
         IN  shorter \cup {Append(s, c) : s \in {t \in shorter : Len(t) = n - 1}, c \in Alphabet}

\* str.isdigit() of a single character
isdigit(c) == c \in Digits

\* str.split('-'): always at least one token, empty tokens kept
RECURSIVE split(_)
split(s) ==
    IF \A i \in 1..Len(s) : s[i] # Hyphen
    THEN <<s>>
    ELSE LET k == CHOOSE i \in 1..Len(s) :
                      s[i] = Hyphen /\ \A j \in 1..(i - 1) : s[j] # Hyphen
         IN  <<SubSeq(s, 1, k - 1)>> \o split(SubSeq(s, k + 1, Len(s)))

\* str.upper() / str.lower() of one character of the alphabet
upper(c) == IF c = "ansible" THEN "Ansible" ELSE IF c = "w" THEN "W" ELSE c
lower(c) == IF c = "Ansible" THEN "ansible" ELSE IF c = "W" THEN "w" ELSE c

\* str.capitalize(): first character upper-cased, the rest lower-cased
capitalize(s) ==
    [i \in 1..Len(s) |-> IF i = 1 THEN upper(s[i]) ELSE lower(s[i])]

\* str.endswith(suffix)
endswith(s, suffix) ==
    /\ Len(suffix) <= Len(s)
    /\ SubSeq(s, Len(s) - Len(suffix) + 1, Len(s)) = suffix

-----------------------------------------------------------------------------
(* Exceptions *)

NoText == <<>>

\* An exception object: its class, to_text(e), its optional orig_exc attribute
\* and, for SystemExit, the code it carries.
Exc(kind, msg) ==
    [kind |-> kind, msg |-> msg, has_orig |-> FALSE, orig_msg |-> NoText, code |-> <<>>]
ExcWrapping(kind, msg, orig) ==
    [kind |-> kind, msg |-> msg, has_orig |-> TRUE, orig_msg |-> orig, code |-> <<>>]
SystemExitExc(n) ==
    [kind |-> "SystemExit", msg |-> NoText, has_orig |-> FALSE, orig_msg |-> NoText, code |-> <<n>>]
NoExc == Exc("none", NoText)

\* The classes the except arms name, and what each raised kind derives from
BaseOf(kind) ==
    CASE kind = "AnsibleOptionsError" -> "AnsibleError"
      [] kind = "AnsibleParserError"  -> "AnsibleError"
      [] kind = "AnsibleError"        -> "Exception"
      [] kind = "ImportError"         -> "Exception"
      [] kind = "AttributeError"      -> "Exception"
      [] kind = "IndexError"          -> "Exception"
      [] kind = "UnicodeError"        -> "Exception"
      [] kind = "OSError"             -> "Exception"
      [] kind = "Exception"           -> "BaseException"
      [] kind = "KeyboardInterrupt"   -> "BaseException"
      [] kind = "SystemExit"          -> "BaseException"
      [] OTHER                        -> "object"

RECURSIVE isinstance(_, _)
isinstance(kind, cls) ==
    \/ kind = cls
    \/ /\ kind \notin {"BaseException", "object"}
       /\ isinstance(BaseOf(kind), cls)

-----------------------------------------------------------------------------
(* Alias resolution, lines 84-98 *)

PrimaryName == <<"ansible">>

\* target[1] of line 92 (Python indexes from 0, TLA+ from 1); the variant
\* takes the token one position early
alias_token_off_by_one(target) == target[1]
alias_token(target) == target[2]

\* Line 86: the last token is taken for a version suffix when its first
\* character is a digit; the variant asks for digits throughout
is_version_suffix_all_digits(token) == \A i \in 1..Len(token) : isdigit(token[i])
is_version_suffix(token) == isdigit(token[1])

\* What lines 84-98 do for a basename: the locals they bind, or the exception
\* they raise (raised.kind = "none" when they complete).
resolve_alias(basename) ==
    LET target0 == split(basename)
        last    == target0[Len(target0)]
        done(s, c, e) == [sub |-> s, myclass |-> c, raised |-> e]
    IN  IF last = <<>>
        THEN \* target[-1][0] of an empty token
             done(NoText, NoText, Exc("IndexError", <<"string index out of range">>))
        ELSE LET target == IF is_version_suffix(last)
                           THEN SubSeq(target0, 1, Len(target0) - 1)
                           ELSE target0
             IN  IF Len(target) > 1
                 THEN done(alias_token(target),
                           capitalize(alias_token(target)) \o <<"CLI">>, NoExc)
                 ELSE IF Len(target) = 0
                 THEN \* target[0] of an empty list
                      done(NoText, NoText, Exc("IndexError", <<"list index out of range">>))
                 ELSE IF target[1] = PrimaryName
                 THEN done(<<"adhoc">>, <<"AdHocCLI">>, NoExc)
                 ELSE done(NoText, NoText,
                           Exc("AnsibleError", <<"Unknown Ansible alias: ">> \o basename))

-----------------------------------------------------------------------------
(* The implementation loader, lines 100-108 *)

\* What __import__(f"ansible.cli.{sub}", fromlist=[myclass]) and the getattr
\* around it can do.
ImportBehaviours ==
    {"ok",                    \* the module exists and has the class
     "no_module",             \* there is no module ansible.cli.<sub>
     "dependency_missing",    \* the module exists, one of its own imports does not
     "legacy_message",        \* the module exists, its import fails with an
                              \* ImportError whose message ends with the alias
     "no_class",              \* the module exists and lacks the class
     "raises"}                \* the module's top-level code raises

\* The message of the ImportError the import system raises (Python 3 quotes
\* the dotted module name).
ImportErrorMsg(behaviour, alias) ==
    CASE behaviour = "no_module" ->
             <<"No module named", " ", "'ansible.cli.">> \o alias \o <<"'">>
      [] behaviour = "dependency_missing" ->
             <<"No module named", " ", "'yaml'">>
      [] behaviour = "legacy_message" ->
             <<"No module named", " ">> \o alias

\* Lines 102-108: the ImportError arm of the loader
translate_import_error(e, alias, basename) ==
    IF endswith(e.msg, <<" ">> \o alias)
    THEN Exc("AnsibleError", <<"Ansible sub-program not implemented: ">> \o basename)
    ELSE e

-----------------------------------------------------------------------------
(* Argument re-encoding, lines 121-126 *)

ArgKinds == {"text", "undecodable"}

\* to_text(a, errors='surrogate_or_strict') returns; it raises UnicodeError otherwise
to_text_ok(a) == a = "text"

\* Line 122: the list comprehension completes iff every argument decodes;
\* the variant decodes sys.argv[1:] only
args_decode_skipping_argv0(args) == \A i \in 2..Len(args) : to_text_ok(args[i])
args_decode(args) == \A i \in 1..Len(args) : to_text_ok(args[i])

-----------------------------------------------------------------------------
(* Error translation, lines 131-165 *)

\* The except arm of the outer try an exception of this kind enters: the first
\* arm, in source order, whose class the exception is an instance of.  The
\* variants put the AnsibleError arm before the AnsibleParserError arm, and
\* leave the KeyboardInterrupt arm out.
except_arm_suite_first(kind) ==
    IF isinstance(kind, "AnsibleOptionsError") THEN "AnsibleOptionsError"
    ELSE IF isinstance(kind, "AnsibleError") THEN "AnsibleError"
    ELSE IF isinstance(kind, "AnsibleParserError") THEN "AnsibleParserError"
    ELSE IF isinstance(kind, "KeyboardInterrupt") THEN "KeyboardInterrupt"
    ELSE IF isinstance(kind, "Exception") THEN "Exception"
    ELSE "none"
except_arm_without_interrupt(kind) ==
    IF isinstance(kind, "AnsibleOptionsError") THEN "AnsibleOptionsError"
    ELSE IF isinstance(kind, "AnsibleParserError") THEN "AnsibleParserError"
    ELSE IF isinstance(kind, "AnsibleError") THEN "AnsibleError"
    ELSE IF isinstance(kind, "Exception") THEN "Exception"
    ELSE "none"
except_arm(kind) ==
    IF isinstance(kind, "AnsibleOptionsError") THEN "AnsibleOptionsError"
    ELSE IF isinstance(kind, "AnsibleParserError") THEN "AnsibleParserError"
    ELSE IF isinstance(kind, "AnsibleError") THEN "AnsibleError"
    ELSE IF isinstance(kind, "KeyboardInterrupt") THEN "KeyboardInterrupt"
    ELSE IF isinstance(kind, "Exception") THEN "Exception"
    ELSE "none"

\* Lines 149-163: the log_only flag the full traceback is emitted with; the
\* variant compares the verbosity with 1
log_only_above_one(cliargs) ==
    ~ (~ cliargs.parsed \/ cliargs.verbosity > 1)
log_only_for(cliargs) ==
    LET have_cli_options == cliargs.parsed
    IN  ~ (~ have_cli_options \/ cliargs.verbosity > 2)

-----------------------------------------------------------------------------
(* State *)

\* What a collaborator (Display, the imported module, the CLI class) may raise
Raisable == {"AnsibleOptionsError", "AnsibleParserError", "AnsibleError", "Exception"}

FsStates == {"absent", "directory", "uncreatable"}

ArgVectors == UNION {[1..n -> ArgKinds] : n \in 1..MaxArgs}

\* The positions inside the try block of lines 74-129
TryBody == {"Display", "deprecated", "resolve_alias", "import", "mkdir",
            "to_text_args", "construct", "run"}

Terminal == {"exited", "exited_early", "uncaught"}

\* One emission: the object `display` was bound to, the method called, the
\* text, and the log_only argument (False when the call passes none)
Emit(method, text, log_only) ==
    [sink |-> display, method |-> method, text |-> text, log_only |-> log_only]

\* The interpreter's own report of an uncaught exception
InterpreterTraceback(e) ==
    [sink |-> "interpreter", method |-> "traceback", text |-> <<e.kind>> \o e.msg,
     log_only |-> FALSE]

format_exc(e) == <<"Traceback (most recent call last):", e.kind>> \o e.msg

Init ==
    /\ pc = "import_constants"
    /\ me \in Strings(MaxNameLen)
    /\ argv \in ArgVectors
    /\ DEFAULT_DEBUG \in BOOLEAN
    /\ CONTROLLER_PYTHON_WARNING \in BOOLEAN
    /\ PY38_MIN \in BOOLEAN
    /\ fs \in FsStates
    /\ display = "LastResort"
    /\ cli = "unbound"
    /\ sub = NoText
    /\ myclass = NoText
    /\ mycli = "unbound"
    /\ imp = "not_tried"
    /\ CLIARGS = [parsed |-> FALSE, verbosity |-> 0]
    /\ exc = NoExc
    /\ caught = NoExc
    /\ exit_code = <<>>
    /\ out = <<>>
    /\ status = <<>>
    /\ hist = <<>>
    /\ returned = <<>>
    /\ peers = <<>>

inputs == <<me, argv, DEFAULT_DEBUG, CONTROLLER_PYTHON_WARNING, PY38_MIN>>
locals == <<sub, myclass, mycli, imp>>

-----------------------------------------------------------------------------
(* The try body, lines 60-129 *)

\* Lines 60-73: the configuration import under the last-resort display; the
\* variant reports the failure and goes on (no sys.exit(5))
ImportConstantsGoesOn ==
    /\ pc = "import_constants"
    /\ hist' = Append(hist, "ImportConstants")
    /\ \/ UNCHANGED out
       \/ out' = Append(out, Emit("error", <<"ansible.constants failed">>, FALSE))
    /\ pc' = "Display"
    /\ cli' = "None"
    /\ UNCHANGED <<inputs, returned, peers, locals, fs, display, CLIARGS, exc, caught,
                   exit_code, status>>
ImportConstants ==
    /\ pc = "import_constants"
    /\ hist' = Append(hist, "ImportConstants")
    /\ \/ /\ pc' = "Display"
          /\ cli' = "None"
          /\ UNCHANGED <<out, status>>
       \/ /\ out' = Append(out, Emit("error", <<"ansible.constants failed">>, FALSE))
          /\ status' = <<5>>
          /\ pc' = "exited_early"
          /\ UNCHANGED cli
    /\ UNCHANGED <<inputs, returned, peers, locals, fs, display, CLIARGS, exc, caught, exit_code>>

\* Line 75
InitDisplay ==
    /\ pc = "Display"
    /\ hist' = Append(hist, "InitDisplay")
    /\ \/ /\ display' = "Display"
          /\ pc' = "deprecated"
          /\ UNCHANGED exc
       \/ /\ \E k \in Raisable : exc' = Exc(k, <<"Display() failed">>)
          /\ pc' = "except"
          /\ UNCHANGED display
    /\ UNCHANGED <<inputs, returned, peers, locals, fs, cli, CLIARGS, caught, exit_code, out, status>>

\* Lines 76-82
Deprecation ==
    /\ pc = "deprecated"
    /\ hist' = Append(hist, "Deprecation")
    /\ IF CONTROLLER_PYTHON_WARNING /\ ~ PY38_MIN
       THEN \/ /\ out' = out \o <<Emit("deprecated", <<"Ansible will require Python 3.8">>, FALSE),
                                  Emit("debug", <<"starting run">>, FALSE)>>
               /\ pc' = "resolve_alias"
               /\ UNCHANGED exc
            \/ /\ \E k \in Raisable : exc' = Exc(k, <<"deprecated() failed">>)
               /\ pc' = "except"
               /\ UNCHANGED out
       ELSE /\ out' = Append(out, Emit("debug", <<"starting run">>, FALSE))
            /\ pc' = "resolve_alias"
            /\ UNCHANGED exc
    /\ UNCHANGED <<inputs, returned, peers, locals, fs, display, cli, CLIARGS, caught, exit_code, status>>

\* Lines 84-98
ResolveAlias ==
    /\ pc = "resolve_alias"
    /\ hist' = Append(hist, "ResolveAlias")
    /\ LET r == resolve_alias(me)
       IN  IF r.raised.kind = "none"
           THEN /\ sub' = r.sub
                /\ myclass' = r.myclass
                /\ pc' = "import"
                /\ UNCHANGED exc
           ELSE /\ exc' = r.raised
                /\ pc' = "except"
                /\ UNCHANGED <<sub, myclass>>
    /\ UNCHANGED <<inputs, returned, peers, mycli, imp, fs, display, cli, CLIARGS, caught, exit_code,
                   out, status>>

\* Lines 100-108
LoadImplementation ==
    /\ pc = "import"
    /\ hist' = Append(hist, "LoadImplementation")
    /\ \E b \in ImportBehaviours :
         /\ imp' = b
         /\ CASE b = "ok" ->
                   /\ mycli' = "class"
                   /\ pc' = "mkdir"
                   /\ UNCHANGED exc
              [] b \in {"no_module", "dependency_missing", "legacy_message"} ->
                   /\ exc' = translate_import_error(
                                 Exc("ImportError", ImportErrorMsg(b, sub)), sub, me)
                   /\ pc' = "except"
                   /\ UNCHANGED mycli
              [] b = "no_class" ->
                   /\ exc' = Exc("AttributeError", <<"module has no attribute ">> \o myclass)
                   /\ pc' = "except"
                   /\ UNCHANGED mycli
              [] b = "raises" ->
                   /\ \E k \in Raisable : exc' = Exc(k, <<"import failed">>)
                   /\ pc' = "except"
                   /\ UNCHANGED mycli
    /\ UNCHANGED <<inputs, returned, peers, sub, myclass, fs, display, cli, CLIARGS, caught, exit_code,
                   out, status>>

\* Line 112: os.mkdir(b_ansible_dir, 0o700) on the directory in this state:
\* the state it leaves and the errno of the OSError it raises ("none": it
\* returns)
os_mkdir(f) ==
    CASE f = "absent"      -> [fs |-> "directory", errno |-> "none"]
      [] f = "directory"   -> [fs |-> f, errno |-> "EEXIST"]
      [] f = "uncreatable" -> [fs |-> f, errno |-> "EACCES"]

\* Lines 111-119: what the try statement around os.mkdir does with its outcome.
\* The variants compare errno with == instead of !=, warn on every OSError,
\* and re-raise what is not EEXIST.
handle_mkdir_inverted(errno) ==
    [raises |-> FALSE, warning |-> errno = "EEXIST", debug |-> errno = "none"]
handle_mkdir_warns_always(errno) ==
    [raises |-> FALSE, warning |-> errno # "none", debug |-> errno = "none"]
handle_mkdir_reraises(errno) ==
    [raises |-> errno \notin {"none", "EEXIST"}, warning |-> FALSE, debug |-> errno = "none"]
handle_mkdir(errno) ==
    [raises  |-> FALSE,
     warning |-> errno # "none" /\ errno # "EEXIST",
     debug   |-> errno = "none"]

\* Lines 110-119
PrepareEnvironment ==
    /\ pc = "mkdir"
    /\ hist' = Append(hist, "PrepareEnvironment")
    /\ LET r == os_mkdir(fs)
           h == handle_mkdir(r.errno)
       IN  /\ fs' = r.fs
           /\ out' = out
                \o (IF h.warning
                    THEN <<Emit("warning", <<"Failed to create the directory">>, FALSE)>>
                    ELSE <<>>)
                \o (IF h.debug
                    THEN <<Emit("debug", <<"Created the directory">>, FALSE)>>
                    ELSE <<>>)
           /\ IF h.raises
              THEN /\ exc' = Exc("OSError", <<r.errno>>)
                   /\ pc' = "except"
              ELSE /\ pc' = "to_text_args"
                   /\ UNCHANGED exc
    /\ UNCHANGED <<inputs, returned, peers, locals, display, cli, CLIARGS, caught, exit_code, status>>

\* Lines 121-126 (the else arm of line 127 is Construct and Run); the variant
\* has lines 128-129 after the try statement instead of in its else arm
ValidateArgsFallsThrough ==
    /\ pc = "to_text_args"
    /\ hist' = Append(hist, "ValidateArgs")
    /\ IF args_decode(argv)
       THEN UNCHANGED <<out, exit_code>>
       ELSE /\ out' = out \o
                <<Emit("error", <<"Command line args are not in utf-8, unable to continue.">>, FALSE),
                  Emit("display", <<"The full traceback was:">>
                                  \o format_exc(Exc("UnicodeError", NoText)), FALSE)>>
            /\ exit_code' = <<6>>
    /\ pc' = "construct"
    /\ UNCHANGED <<inputs, returned, peers, locals, fs, display, cli, CLIARGS, exc, caught, status>>
ValidateArgs ==
    /\ pc = "to_text_args"
    /\ hist' = Append(hist, "ValidateArgs")
    /\ IF args_decode(argv)
       THEN /\ pc' = "construct"
            /\ UNCHANGED <<out, exit_code>>
       ELSE /\ out' = out \o
                <<Emit("error", <<"Command line args are not in utf-8, unable to continue.">>, FALSE),
                  Emit("display", <<"The full traceback was:">>
                                  \o format_exc(Exc("UnicodeError", NoText)), FALSE)>>
            /\ exit_code' = <<6>>
            /\ pc' = "sys_exit"
    /\ UNCHANGED <<inputs, returned, peers, locals, fs, display, cli, CLIARGS, exc, caught, status>>

\* Line 128: cli = mycli(args)
Construct ==
    /\ pc = "construct"
    /\ hist' = Append(hist, "Construct")
    /\ \/ /\ cli' \in {"cli_without_parser", "cli_with_parser"}
          /\ pc' = "run"
          /\ UNCHANGED exc
       \/ /\ \E k \in Raisable : exc' = Exc(k, <<"constructor failed">>)
          /\ pc' = "except"
          /\ UNCHANGED cli
    /\ UNCHANGED <<inputs, returned, peers, locals, fs, display, CLIARGS, caught, exit_code, out, status>>

\* How far run() got before it returned or raised: it builds its parser, then
\* parses the options into context.CLIARGS
RunProgress ==
    {[parser |-> FALSE, parsed |-> FALSE, verbosity |-> 0],
     [parser |-> TRUE, parsed |-> FALSE, verbosity |-> 0]}
    \cup {[parser |-> TRUE, parsed |-> TRUE, verbosity |-> v] : v \in 0..MaxVerbosity}

RunFailures ==
    {Exc(k, <<"run() failed">>) : k \in Raisable}
    \cup {ExcWrapping("Exception", <<"run() failed">>, m) :
              m \in {<<"run() failed">>, <<"original failure">>}}
    \cup {Exc("KeyboardInterrupt", NoText)}
    \cup {SystemExitExc(n) : n \in 0..MaxReturn}

\* Line 129: exit_code = cli.run()
Run ==
    /\ pc = "run"
    /\ hist' = Append(hist, "Run")
    /\ \E p \in RunProgress :
         /\ cli' = IF p.parser THEN "cli_with_parser" ELSE cli
         /\ CLIARGS' = [parsed |-> p.parsed, verbosity |-> p.verbosity]
    /\ \/ /\ \E r \in 0..MaxReturn :
                /\ returned' = <<r>>
                /\ exit_code' = returned'
          /\ pc' = "sys_exit"
          /\ UNCHANGED exc
       \/ /\ exc' \in RunFailures
          /\ pc' = "except"
          /\ UNCHANGED <<exit_code, returned>>
    /\ UNCHANGED <<inputs, peers, locals, fs, display, caught, out, status>>

\* An operator interrupt delivered while the try body runs, before the step at
\* hand has had an effect (Run covers the interrupt that arrives inside run())
Interrupt ==
    /\ pc \in TryBody
    /\ hist' = Append(hist, "Interrupt")
    /\ exc' = Exc("KeyboardInterrupt", NoText)
    /\ pc' = "except"
    /\ UNCHANGED <<inputs, returned, peers, locals, fs, display, cli, CLIARGS, caught, exit_code, out,
                   status>>

-----------------------------------------------------------------------------
(* The except arms of the outer try, lines 131-165, and the exit, line 167 *)

\* An exception leaves the script: the interpreter reports it and ends the
\* process (status 1), or ends it silently with the code a SystemExit carries
Escapes(e) ==
    /\ exc' = e
    /\ pc' = "uncaught"
    /\ IF e.kind = "SystemExit"
       THEN /\ status' = e.code
            /\ UNCHANGED out
       ELSE /\ status' = <<1>>
            /\ out' = Append(out, InterpreterTraceback(e))
    /\ UNCHANGED exit_code

\* A completed arm falls through to line 167
Translated(code, emitted) ==
    /\ out' = out \o emitted
    /\ exit_code' = <<code>>
    /\ exc' = NoExc
    /\ pc' = "sys_exit"
    /\ UNCHANGED status

\* Lines 131-134
HandleOptionsError ==
    /\ pc = "except"
    /\ hist' = Append(hist, "HandleOptionsError")
    /\ except_arm(exc.kind) = "AnsibleOptionsError"
    /\ caught' = exc
    /\ IF cli = "cli_with_parser"
       THEN Translated(5, <<Emit("print_help", <<"usage">>, FALSE),
                            Emit("error", exc.msg, FALSE)>>)
       ELSE \* cli.parser.print_help() on None
            Escapes(Exc("AttributeError",
                        <<"'NoneType' object has no attribute">>))
    /\ UNCHANGED <<inputs, returned, peers, locals, fs, display, cli, CLIARGS>>

\* Lines 135-137
HandleParserError ==
    /\ pc = "except"
    /\ hist' = Append(hist, "HandleParserError")
    /\ except_arm(exc.kind) = "AnsibleParserError"
    /\ caught' = exc
    /\ Translated(4, <<Emit("error", exc.msg, FALSE)>>)
    /\ UNCHANGED <<inputs, returned, peers, locals, fs, display, cli, CLIARGS>>

\* Lines 138-140
HandleAnsibleError ==
    /\ pc = "except"
    /\ hist' = Append(hist, "HandleAnsibleError")
    /\ except_arm(exc.kind) = "AnsibleError"
    /\ caught' = exc
    /\ Translated(1, <<Emit("error", exc.msg, FALSE)>>)
    /\ UNCHANGED <<inputs, returned, peers, locals, fs, display, cli, CLIARGS>>

\* Lines 141-143
HandleKeyboardInterrupt ==
    /\ pc = "except"
    /\ hist' = Append(hist, "HandleKeyboardInterrupt")
    /\ except_arm(exc.kind) = "KeyboardInterrupt"
    /\ caught' = exc
    /\ Translated(99, <<Emit("error", <<"User interrupted execution">>, FALSE)>>)
    /\ UNCHANGED <<inputs, returned, peers, locals, fs, display, cli, CLIARGS>>

\* Lines 156-160: the wrapped failure, shown through display.vvv
OrigExcDetail(e) ==
    IF e.has_orig
    THEN <<Emit("vvv", <<"exception type:">>, FALSE)>>
         \o (IF e.msg # e.orig_msg
             THEN <<Emit("vvv", <<"original msg: ">> \o e.orig_msg, FALSE)>>
             ELSE <<>>)
    ELSE <<>>

\* Lines 144-165
HandleException ==
    /\ pc = "except"
    /\ hist' = Append(hist, "HandleException")
    /\ except_arm(exc.kind) = "Exception"
    /\ caught' = exc
    /\ IF DEFAULT_DEBUG
       THEN Escapes(exc)
       ELSE LET log_only == log_only_for(CLIARGS)
            IN  Translated(250,
                    <<Emit("error", <<"Unexpected Exception, this is probably a bug: ">>
                                    \o exc.msg, FALSE)>>
                    \o (IF ~ log_only
                        THEN OrigExcDetail(exc)
                        ELSE <<Emit("display", <<"to see the full traceback, use -vvv">>, FALSE)>>)
                    \o <<Emit("display", <<"the full traceback was:">> \o format_exc(exc),
                              log_only)>>)
    /\ UNCHANGED <<inputs, returned, peers, locals, fs, display, cli, CLIARGS>>

\* No arm matches: the exception leaves the try statement
Unhandled ==
    /\ pc = "except"
    /\ hist' = Append(hist, "Unhandled")
    /\ except_arm(exc.kind) = "none"
    /\ Escapes(exc)
    /\ UNCHANGED <<inputs, returned, peers, locals, fs, display, cli, CLIARGS, caught>>

\* Line 167; the variant calls sys.exit() without the code
ExitWithoutCode ==
    /\ pc = "sys_exit"
    /\ hist' = Append(hist, "Exit")
    /\ status' = <<0>>
    /\ pc' = "exited"
    /\ UNCHANGED <<inputs, returned, peers, locals, fs, display, cli, CLIARGS, exc, caught,
                   exit_code, out>>
Exit ==
    /\ pc = "sys_exit"
    /\ hist' = Append(hist, "Exit")
    /\ status' = exit_code
    /\ pc' = "exited"
    /\ UNCHANGED <<inputs, returned, peers, locals, fs, display, cli, CLIARGS, exc, caught, exit_code, out>>

Next ==
    \/ ImportConstants
    \/ InitDisplay
    \/ Deprecation
    \/ ResolveAlias
    \/ LoadImplementation
    \/ PrepareEnvironment
    \/ ValidateArgs
    \/ Construct
    \/ Run
    \/ Interrupt
    \/ HandleOptionsError
    \/ HandleParserError
    \/ HandleAnsibleError
    \/ HandleKeyboardInterrupt
    \/ HandleException
    \/ Unhandled
    \/ Exit

Spec == Init /\ [][Next]_vars

-----------------------------------------------------------------------------
(* Alias resolution on its own, over a wider set of basenames *)

InitAlias ==
    /\ pc = "resolve_alias"
    /\ me \in Strings(MaxAliasLen)
    /\ argv = <<"text">>
    /\ DEFAULT_DEBUG = FALSE
    /\ CONTROLLER_PYTHON_WARNING = FALSE
    /\ PY38_MIN = TRUE
    /\ fs = "directory"
    /\ display = "Display"
    /\ cli = "None"
    /\ sub = NoText
    /\ myclass = NoText
    /\ mycli = "unbound"
    /\ imp = "not_tried"
    /\ CLIARGS = [parsed |-> FALSE, verbosity |-> 0]
    /\ exc = NoExc
    /\ caught = NoExc
    /\ exit_code = <<>>
    /\ out = <<Emit("debug", <<"starting run">>, FALSE)>>
    /\ status = <<>>
    /\ hist = <<"ImportConstants", "InitDisplay", "Deprecation">>
    /\ returned = <<>>
    /\ peers = <<>>

SpecAlias == InitAlias /\ [][ResolveAlias]_vars

-----------------------------------------------------------------------------
(* Several dispatcher processes at lines 110-119, on the same directory *)

Procs == 1..NumProcs

dispatcher == <<pc, inputs, locals, display, cli, CLIARGS, exc, caught, exit_code,
                out, status, hist, returned>>

\* Line 112 in process p: one system call
PeerMkdir(p) ==
    /\ peers[p].pc = "mkdir"
    /\ LET r == os_mkdir(fs)
       IN  /\ fs' = r.fs
           /\ peers' = [peers EXCEPT ![p] =
                  [pc |-> "handle", errno |-> r.errno, warned |-> FALSE,
                   seen |-> Cardinality({q \in Procs : peers[q].pc # "mkdir"})]]
    /\ UNCHANGED dispatcher

\* Lines 113-119 in process p
PeerHandle(p) ==
    /\ peers[p].pc = "handle"
    /\ LET h == handle_mkdir(peers[p].errno)
       IN  peers' = [peers EXCEPT ![p].pc = IF h.raises THEN "except" ELSE "to_text_args",
                                  ![p].warned = h.warning]
    /\ UNCHANGED <<dispatcher, fs>>

NextPeers ==
    \/ \E p \in Procs : PeerMkdir(p)
    \/ \E p \in Procs : PeerHandle(p)

InitPeers ==
    /\ pc = "mkdir"
    /\ me = PrimaryName
    /\ argv = <<"text">>
    /\ DEFAULT_DEBUG = FALSE
    /\ CONTROLLER_PYTHON_WARNING = FALSE
    /\ PY38_MIN = TRUE
    /\ fs \in FsStates
    /\ display = "Display"
    /\ cli = "None"
    /\ sub = <<"adhoc">>
    /\ myclass = <<"AdHocCLI">>
    /\ mycli = "class"
    /\ imp = "ok"
    /\ CLIARGS = [parsed |-> FALSE, verbosity |-> 0]
    /\ exc = NoExc
    /\ caught = NoExc
    /\ exit_code = <<>>
    /\ out = <<>>
    /\ status = <<>>
    /\ hist = <<>>
    /\ returned = <<>>
    /\ peers = [p \in Procs |-> [pc |-> "mkdir", errno |-> "none", warned |-> FALSE, seen |-> 0]]

\* The processes on every initial state of the directory
SpecPrepare == InitPeers /\ [][NextPeers]_vars

\* The processes racing for a directory that does not exist yet
InitRace == InitPeers /\ fs = "absent"
SpecRace == InitRace /\ [][NextPeers]_vars

-----------------------------------------------------------------------------
(* Properties *)

Took(step) == \E i \in DOMAIN hist : hist[i] = step

\* The text holds `needle` as a contiguous part
Contains(s, needle) ==
    \E i \in 0..(Len(s) - Len(needle)) : SubSeq(s, i + 1, i + Len(needle)) = needle

\* The emissions of one method
Emitted(method) == {i \in DOMAIN out : out[i].method = method}

\* The emissions that carry a stack trace: format_exc() text through
\* display.display, or the interpreter's report of an uncaught exception
TraceEmissions ==
    {i \in DOMAIN out :
        \/ out[i].method = "traceback"
        \/ Contains(out[i].text, <<"Traceback (most recent call last):">>)}

HasUndecodable == \E i \in DOMAIN argv : argv[i] = "undecodable"

\* Neither an AnsibleError nor an interrupt: what the last arm is for
Unclassified(kind) ==
    kind \in {"Exception", "ImportError", "AttributeError", "IndexError",
              "UnicodeError", "OSError"}

\* The run ended through line 167 with this code
ExitedWith(code) == pc = "exited" /\ exit_code = <<code>> /\ status = <<code>>

\* The arm has assigned this code and line 167 is next or done
Assigned(code) ==
    /\ pc \in {"sys_exit", "exited"}
    /\ exit_code = <<code>>
    /\ pc = "exited" => status = <<code>>

\* C1: an AnsibleOptionsError raised anywhere in the try body ends the run with
\* exit code 5 and an error message carrying its text, also when no
\* implementation object exists yet; help is printed only with a parser.
C1_OptionsErrorExits5 ==
    caught.kind = "AnsibleOptionsError" =>
        /\ Assigned(5)
        /\ \E i \in Emitted("error") : out[i].text = caught.msg
        /\ Emitted("print_help") # {} => cli = "cli_with_parser"

\* C2 as stated: an argument vector with an undecodable argument always ends
\* the run with exit code 6, whatever the basename and the collaborators do,
\* and the implementation is never constructed or run.
C2_UndecodableAlwaysExits6 ==
    HasUndecodable =>
        /\ ~ Took("Construct") /\ ~ Took("Run")
        /\ pc \in Terminal => ExitedWith(6)

\* C2, amended: with an undecodable argument the implementation is never
\* constructed and run() never called, for every basename and collaborator
\* behaviour; and once the argument re-encoding step is reached, the run ends
\* through line 167 with exit code 6 and one error message.
C2_UndecodableExits6OnceReached ==
    HasUndecodable =>
        /\ ~ Took("Construct") /\ ~ Took("Run")
        /\ cli \in {"unbound", "None"}
        /\ Took("ValidateArgs") =>
              /\ Assigned(6)
              /\ Cardinality(Emitted("error")) = 1
              /\ caught = NoExc

C2_Witness ==
    /\ HasUndecodable
    /\ Took("ValidateArgs")
    /\ ExitedWith(6)

\* C3: an AnsibleParserError (raised by the constructor, by run() or earlier)
\* yields exit code 4, never 1, and exactly one error message containing its
\* text; an AnsibleError that is neither an options nor a parser error yields
\* exit code 1.
C3_ParserErrorExits4 ==
    /\ caught.kind = "AnsibleParserError" =>
          /\ Assigned(4)
          /\ Cardinality(Emitted("error")) = 1
          /\ \A i \in Emitted("error") : Contains(out[i].text, caught.msg)
    /\ caught.kind = "AnsibleError" =>
          /\ Assigned(1)
          /\ Cardinality(Emitted("error")) = 1
          /\ \A i \in Emitted("error") : Contains(out[i].text, caught.msg)

C3_Witness ==
    /\ caught.kind = "AnsibleParserError"
    /\ Took("Run")
    /\ ExitedWith(4)

\* The emissions of the full traceback by the last arm (line 164)
FullTrace == {i \in Emitted("display") : Contains(out[i].text, <<"the full traceback was:">>)}

\* C4 as stated: debug off, an unclassified failure at any step while
\* verbosity <= 2 yields 250, a one-line summary, and the trace with
\* log_only = true.
C4_TraceLogOnlyAtAnyStep ==
    (~ DEFAULT_DEBUG /\ Unclassified(caught.kind) /\ CLIARGS.verbosity <= 2) =>
        /\ Assigned(250)
        /\ Cardinality(Emitted("error")) = 1
        /\ Cardinality(FullTrace) = 1
        /\ \A i \in FullTrace : out[i].log_only

\* C4, amended: debug off, an unclassified failure yields 250 and a one-line
\* summary containing the failure text, and the trace is emitted once, with
\* log_only = true exactly when the run options have been parsed
\* (context.CLIARGS is non-empty) and verbosity <= 2; it is displayed when
\* the options are not parsed yet or verbosity > 2.
C4_TraceLogOnlyOnceParsed ==
    (~ DEFAULT_DEBUG /\ Unclassified(caught.kind)) =>
        /\ Assigned(250)
        /\ Cardinality(Emitted("error")) = 1
        /\ \A i \in Emitted("error") : Contains(out[i].text, caught.msg)
        /\ Cardinality(FullTrace) = 1
        /\ \A i \in FullTrace :
              out[i].log_only = (CLIARGS.parsed /\ CLIARGS.verbosity <= 2)

C4_Witness ==
    /\ ~ DEFAULT_DEBUG
    /\ Unclassified(caught.kind)
    /\ CLIARGS.parsed /\ CLIARGS.verbosity = 2
    /\ ExitedWith(250)
    /\ \E i \in FullTrace : out[i].log_only

\* C5: debug on, an unclassified failure propagates uncaught (no 250, no error
\* summary, line 167 never reached), and the classified kinds keep their
\* codes: options 5, parser 4, suite 1, interrupt 99, encoding 6.
C5_DebugOnlyChangesUnclassified ==
    DEFAULT_DEBUG =>
        /\ Unclassified(caught.kind) =>
              /\ pc = "uncaught"
              /\ exit_code = <<>>
              /\ Emitted("error") = {}
              /\ ~ Took("Exit")
        /\ caught.kind = "AnsibleOptionsError" => Assigned(5)
        /\ caught.kind = "AnsibleParserError" => Assigned(4)
        /\ caught.kind = "AnsibleError" => Assigned(1)
        /\ caught.kind = "KeyboardInterrupt" => Assigned(99)
        /\ (HasUndecodable /\ Took("ValidateArgs")) => Assigned(6)

\* The basename read as <prefix>-<name>-<digits>
HyphenAt == {i \in 1..Len(me) : me[i] = Hyphen}
FirstHyphen == CHOOSE i \in HyphenAt : \A j \in HyphenAt : i <= j
LastHyphen == CHOOSE i \in HyphenAt : \A j \in HyphenAt : j <= i
IsPrefixNameDigits ==
    /\ Cardinality(HyphenAt) = 2
    /\ FirstHyphen > 1
    /\ LastHyphen > FirstHyphen + 1
    /\ LastHyphen < Len(me)
    /\ \A k \in (LastHyphen + 1)..Len(me) : me[k] \in Digits
PrefixPart == SubSeq(me, 1, FirstHyphen - 1)
NamePart == SubSeq(me, FirstHyphen + 1, LastHyphen - 1)
WithoutSuffix == SubSeq(me, 1, LastHyphen - 1)

\* C6 as stated: <prefix>-<name>-<digits> resolves to <name> for every prefix
\* and digit string, and to the same result as <prefix>-<name>.
C6_SuffixedResolvesAsUnsuffixed ==
    (IsPrefixNameDigits /\ Took("ResolveAlias")) =>
        /\ pc = "import" /\ exc = NoExc
        /\ sub = NamePart
        /\ resolve_alias(WithoutSuffix).raised = NoExc
        /\ resolve_alias(WithoutSuffix).sub = sub

\* C6, amended: <prefix>-<name>-<digits> resolves to <name> for every prefix
\* and digit string; this equals the result for <prefix>-<name> provided
\* <name> does not begin with a digit.
C6_SuffixedResolvesToName ==
    (IsPrefixNameDigits /\ Took("ResolveAlias")) =>
        /\ pc = "import" /\ exc = NoExc
        /\ sub = NamePart
        /\ ~ isdigit(NamePart[1]) =>
              /\ resolve_alias(WithoutSuffix).raised = NoExc
              /\ resolve_alias(WithoutSuffix).sub = sub
              /\ resolve_alias(WithoutSuffix).myclass = myclass

C6_Witness ==
    /\ IsPrefixNameDigits
    /\ Took("ResolveAlias")
    /\ PrefixPart # PrimaryName
    /\ PrefixPart # NamePart
    /\ sub = NamePart

\* C7: a basename without a hyphen that is not 'ansible' fails alias
\* resolution with the unknown-alias AnsibleError and the run ends with exit
\* code 1, nothing loaded, constructed or run.
C7_NoHyphenIsUnknownAlias ==
    (HyphenAt = {} /\ me # PrimaryName /\ Took("ResolveAlias")) =>
        /\ imp = "not_tried" /\ ~ Took("Construct") /\ ~ Took("Run")
        /\ pc = "except" =>
              exc = Exc("AnsibleError", <<"Unknown Ansible alias: ">> \o me)
        /\ pc # "except" =>
              /\ caught = Exc("AnsibleError", <<"Unknown Ansible alias: ">> \o me)
              /\ Assigned(1)

\* C8: alias resolution is total: for every basename it binds an alias or
\* raises the unknown-alias AnsibleError, nothing else.
C8_ResolutionTotal ==
    Took("ResolveAlias") =>
        \/ pc = "import" /\ exc = NoExc
        \/ /\ pc = "except"
           /\ exc = Exc("AnsibleError", <<"Unknown Ansible alias: ">> \o me)

NotImplementedError == Exc("AnsibleError", <<"Ansible sub-program not implemented: ">> \o me)

\* C9: a missing implementation module is reported as 'not implemented' (an
\* AnsibleError, exit code 1); every other loader failure is propagated
\* unchanged, never as 'not implemented', and with debug off ends in 250.
C9_MissingModuleNotImplemented ==
    /\ imp = "no_module" =>
          /\ pc = "except" => exc = NotImplementedError
          /\ pc # "except" => (caught = NotImplementedError /\ Assigned(1))
    /\ imp \in {"dependency_missing", "legacy_message", "no_class"} =>
          /\ pc = "except" =>
                exc.kind \in {"ImportError", "AttributeError"}
          /\ pc # "except" =>
                /\ caught.kind \in {"ImportError", "AttributeError"}
                /\ ~ DEFAULT_DEBUG => Assigned(250)

\* C10: an operator interrupt during the try body ends the run through line
\* 167 with exit code 99 and one error message, no traceback displayed or
\* logged, with debug on or off.
C10_InterruptExits99 ==
    (exc.kind = "KeyboardInterrupt" \/ caught.kind = "KeyboardInterrupt") =>
        \/ pc = "except" /\ exc.kind = "KeyboardInterrupt"
        \/ /\ caught.kind = "KeyboardInterrupt"
           /\ Assigned(99)
           /\ Cardinality(Emitted("error")) = 1
           /\ \A i \in Emitted("error") : out[i].text = <<"User interrupted execution">>
           /\ TraceEmissions = {}

C10_Witness ==
    /\ DEFAULT_DEBUG
    /\ Took("Run")
    /\ CLIARGS.parsed
    /\ caught.kind = "KeyboardInterrupt"
    /\ ExitedWith(99)

\* The processes whose preparation is over, and those whose os.mkdir was not
\* the first on the directory
Prepared == {p \in DOMAIN peers : peers[p].pc \in {"to_text_args", "except"}}
LaterCallers == {p \in Prepared : peers[p].seen >= 1}

\* C11 as stated: whatever the directory's initial state and the first call's
\* outcome, a later call on the same path does not fail and does not warn.
C11_SecondCallSilent ==
    \A p \in LaterCallers :
        /\ peers[p].pc = "to_text_args"
        /\ ~ peers[p].warned

\* C11, amended: a later call never fails, and it emits no warning whenever
\* the first call created the directory or found it existing (it then sees
\* EEXIST); when the directory cannot be created the later call warns again,
\* as the first did.
C11_SecondCallSilentOnceExisting ==
    \A p \in LaterCallers :
        /\ peers[p].pc = "to_text_args"
        /\ fs = "directory" => (peers[p].errno = "EEXIST" /\ ~ peers[p].warned)
        /\ fs # "directory" => (fs = "uncreatable" /\ peers[p].warned)

C11_Witness ==
    /\ \E p \in Prepared : peers[p].seen = 0 /\ peers[p].errno = "none"
    /\ \E p \in LaterCallers : peers[p].errno = "EEXIST" /\ ~ peers[p].warned

\* C12: when nothing fails before or in run(), the process exit code is the
\* value run() returned, whatever it is, and the dispatcher emits no error
\* message.
C12_ExitCodeIsRunValue ==
    returned # <<>> =>
        /\ pc \in {"sys_exit", "exited"}
        /\ exit_code = returned
        /\ pc = "exited" => status = returned
        /\ caught = NoExc /\ exc = NoExc
        /\ Emitted("error") = {}
        /\ TraceEmissions = {}

C12_Witness ==
    /\ me = PrimaryName
    /\ myclass = <<"AdHocCLI">>
    /\ returned = <<0>>
    /\ pc = "exited"
    /\ status = <<0>>

\* The basename 'ansible' followed by one digit-leading token
IsPrimaryWithSuffix ==
    /\ Len(me) >= 3
    /\ SubSeq(me, 1, 1) = PrimaryName
    /\ me[2] = Hyphen
    /\ me[3] \in Digits
    /\ \A k \in 3..Len(me) : me[k] # Hyphen

\* C13: the basename 'ansible', alone or followed by exactly one
\* digit-leading suffix token, resolves to the default alias 'adhoc' with
\* class AdHocCLI.
C13_PrimaryNameIsAdhoc ==
    ((me = PrimaryName \/ IsPrimaryWithSuffix) /\ Took("ResolveAlias")) =>
        /\ pc = "import" /\ exc = NoExc
        /\ sub = <<"adhoc">>
        /\ myclass = <<"AdHocCLI">>

C13_Witness ==
    /\ IsPrimaryWithSuffix
    /\ \E k \in 4..Len(me) : me[k] \notin Digits
    /\ Took("ResolveAlias")
    /\ sub = <<"adhoc">>

\* The steps that assign exit_code: an except arm that completes, the
\* UnicodeError arm of the argument re-encoding, and run() returning
Arms == {"HandleOptionsError", "HandleParserError", "HandleAnsibleError",
         "HandleKeyboardInterrupt", "HandleException"}
NumAssignments ==
    Cardinality({i \in DOMAIN hist : hist[i] \in Arms})
    + (IF returned # <<>> THEN 1 ELSE 0)
    + (IF Took("ValidateArgs") /\ HasUndecodable THEN 1 ELSE 0)

\* The code of the translation table for what was caught
TableCode ==
    CASE caught.kind = "AnsibleOptionsError" -> <<5>>
      [] caught.kind = "AnsibleParserError"  -> <<4>>
      [] caught.kind = "AnsibleError"        -> <<1>>
      [] caught.kind = "KeyboardInterrupt"   -> <<99>>
      [] Unclassified(caught.kind)           -> <<250>>
      [] OTHER -> IF returned # <<>> THEN returned ELSE <<6>>

ThroughLine167 ==
    /\ Took("Exit")
    /\ NumAssignments = 1
    /\ exit_code = TableCode
    /\ status = exit_code

\* C14 as stated: every run terminates only through line 167, with the exit
\* code assigned exactly once, by run() or by one arm of the table.
C14_SingleExitPoint ==
    pc \in Terminal => (pc = "exited" /\ ThroughLine167)

\* C14, amended: a run terminates in exactly one of three ways: through line
\* 167, with exit_code assigned exactly once (by run() returning or by one arm
\* of the table) and in {run() value, 1, 4, 5, 6, 99, 250}; through the early
\* sys.exit(5) of line 67 when the configuration cannot be imported; or by an
\* exception that leaves the script with no exit code assigned (the debug
\* re-raise, a failure inside an arm, a SystemExit raised by run()).  The
\* exit status is set once, on termination.
C14_ThreeWaysOut ==
    /\ status # <<>> <=> pc \in Terminal
    /\ pc = "exited" => ThroughLine167
    /\ pc = "exited_early" =>
          /\ hist = <<"ImportConstants">>
          /\ status = <<5>> /\ exit_code = <<>>
          /\ Cardinality(Emitted("error")) = 1
    /\ pc = "uncaught" =>
          /\ exit_code = <<>> /\ ~ Took("Exit")
          /\ exc # NoExc
    /\ (\E i \in Emitted("error") : out[i].text = <<"ansible.constants failed">>)
          => pc = "exited_early"

C14_Witness ==
    /\ pc = "exited"
    /\ ThroughLine167
    /\ Took("HandleException")
    /\ status = <<250>>

\* A step of the Environment Preparer (lines 110-119)
PreparerStep == pc = "mkdir" /\ hist' = Append(hist, "PrepareEnvironment")

Warnings == Emitted("warning")

\* C15: whatever os.mkdir does (created, already exists, another OS error),
\* the preparer neither aborts nor alters the run: the dispatcher goes on to
\* the argument re-encoding with nothing changed that decides the exit code,
\* which stays the one of the translation table; a warning is emitted if and
\* only if the creation failed for a reason other than 'already exists'.
C15_PreparerNeverAlters ==
    /\ [][PreparerStep =>
            /\ pc' = "to_text_args"
            /\ UNCHANGED <<exc, caught, exit_code, status, cli, mycli, CLIARGS, argv,
                           returned, display>>
            /\ Len(out') = Len(out) + 1 <=> fs # "directory"
            /\ (\E i \in DOMAIN out' : out'[i].method = "warning") <=> fs = "uncreatable"
            /\ fs' = "directory" <=> fs # "uncreatable"]_vars
    /\ [](Took("PrepareEnvironment") =>
            /\ Cardinality(Warnings) = (IF fs = "uncreatable" THEN 1 ELSE 0)
            /\ pc = "exited" => status = TableCode)

C15_Witness ==
    /\ Took("PrepareEnvironment")
    /\ fs = "uncreatable"
    /\ Cardinality(Warnings) = 1
    /\ returned = <<0>>
    /\ pc = "exited" /\ status = <<0>>

\* The processes whose os.mkdir has been made, and those whose call created
\* the directory
Called == {p \in DOMAIN peers : peers[p].pc # "mkdir"}
Creators == {p \in Called : peers[p].errno = "none"}

\* C16: processes racing on an absent state directory, no locking: in every
\* interleaving exactly one creates it, every other one sees 'already
\* exists', none warns or fails, each goes on to its invocation, and the
\* directory exists afterwards.
C16_RaceHarmless ==
    /\ Called # {} =>
          /\ fs = "directory"
          /\ Cardinality(Creators) = 1
          /\ \A p \in Creators : peers[p].seen = 0
    /\ \A p \in Called \ Creators : peers[p].errno = "EEXIST"
    /\ \A p \in Called : ~ peers[p].warned /\ peers[p].pc # "except"
    /\ \A p \in Prepared : peers[p].pc = "to_text_args"
    /\ Called = {} => fs = "absent"

C16_Witness ==
    /\ Prepared = Procs
    /\ fs = "directory"
    /\ NumProcs \in Creators
    /\ \E p \in Procs \ Creators : peers[p].seen = NumProcs - 1

\* The stages of the pipeline in source order, and the steps that end it
StageOrder == <<"ImportConstants", "InitDisplay", "Deprecation", "ResolveAlias",
                "LoadImplementation", "PrepareEnvironment", "ValidateArgs",
                "Construct", "Run">>
Stages == {StageOrder[i] : i \in DOMAIN StageOrder}
IsStage(step) == step \in Stages
StagesTaken == SelectSeq(hist, IsStage)

\* A stage has failed: an exception is on its way, an arm ran, or the
\* argument re-encoding assigned 6
Failed ==
    \/ exc # NoExc \/ caught # NoExc
    \/ Took("Interrupt")
    \/ Took("ValidateArgs") /\ HasUndecodable
    \/ pc = "exited_early"

\* C17: the stages are entered in source order, each at most once; a failure
\* at a stage ends the pipeline (failed, then terminated) with no later stage
\* and no retry; the implementation is constructed and run at most once and
\* only after every earlier stage succeeded; the directory creation is
\* attempted only after the implementation was loaded.
C17_SingleShotOrdered ==
    /\ StagesTaken = SubSeq(StageOrder, 1, Len(StagesTaken))
    /\ \A i \in DOMAIN hist : \A j \in DOMAIN hist :
          (i < j /\ ~ IsStage(hist[i])) => ~ IsStage(hist[j])
    /\ Failed => pc \notin TryBody
    /\ Cardinality({i \in DOMAIN hist : hist[i] \in Arms \cup {"Unhandled"}}) <= 1
    /\ Cardinality({i \in DOMAIN hist : hist[i] = "Exit"}) <= 1
    /\ Took("PrepareEnvironment") => (imp = "ok" /\ mycli = "class")
    /\ Took("Construct") =>
          /\ display = "Display" /\ imp = "ok" /\ ~ HasUndecodable
          /\ Took("PrepareEnvironment") /\ Took("ValidateArgs")
    /\ Took("Run") => cli \in {"cli_without_parser", "cli_with_parser"}

C17_Witness ==
    /\ StagesTaken = StageOrder
    /\ Took("HandleParserError")
    /\ pc = "exited"

\* The step taken last
LastStep == IF hist = <<>> THEN "none" ELSE hist[Len(hist)]

\* Steps whose failure is dealt with where it happens, without the outer
\* except arms: the directory creation (lines 113-119) and the argument
\* re-encoding (lines 123-126)
RaisedAt(step) == LastStep = step /\ pc = "except"

\* C18: a failure raised while emitting the deprecation notice is absorbed
\* where it happens: after the deprecation step the run is always at alias
\* resolution, and no failure of that step or of the directory creation
\* reaches the except arms.
C18_DeprecationFailureAbsorbed ==
    /\ LastStep = "Deprecation" => (pc = "resolve_alias" /\ exc = NoExc)
    /\ ~ RaisedAt("Deprecation")
    /\ ~ RaisedAt("PrepareEnvironment")

\* The run is over and it went into an arm of the translation table (for the
\* last arm: with debug off, line 148 being the documented way out), or
\* through the re-encoding failure of lines 123-126
EndedThroughArm ==
    /\ pc \in {"exited", "uncaught"}
    /\ \/ caught # NoExc /\ ~ (DEFAULT_DEBUG /\ except_arm(caught.kind) = "Exception")
       \/ Took("ValidateArgs") /\ HasUndecodable

\* C19: every run that ends through an arm of the translation table has
\* emitted at least one error-level message before the process terminates,
\* and the last arm has emitted the full trace exactly once (displayed or
\* log only).
C19_ErrorAlwaysEmitted ==
    EndedThroughArm =>
        /\ Emitted("error") # {}
        /\ (caught # NoExc /\ except_arm(caught.kind) = "Exception") =>
              Cardinality(FullTrace) = 1

====
